---- MODULE Spec2Model ----
(***************************************************************************)
(* Model of the Daily Check-in Points System.                              *)
(*                                                                         *)
(* src/contracts/daily-checkin.clar holds two contracts:                   *)
(*   - lines   1-237: the first contract (check-in, bulk-check-in, two     *)
(*                    admin setters, constant fee paid to CONTRACT-OWNER); *)
(*   - lines 239-455: the V2 contract (check-in with a configurable fee    *)
(*                    paid to the contract-deployer variable, four admin   *)
(*                    functions, no bulk entry point).                     *)
(* Both keep the same data vars and maps, so one set of variables is used; *)
(* Spec runs the V2 contract, SpecV1 the first contract, SpecDaily the V2  *)
(* check-in under a clock that advances one day (144 blocks) at a time.    *)
(*                                                                         *)
(* The web layer has four objects with state of their own, modelled next   *)
(* to the contract: CircuitBreaker and Bulkhead (src/web/circuit-breaker.js)*)
(* under SpecBreaker and SpecBulkhead, RequestQueue                        *)
(* (src/web/request-queue.js) under SpecQueue and LRUCache                 *)
(* (src/unnamed/part_009) under SpecCache.  A contract call leaves them    *)
(* alone and they leave the contract alone.                                *)
(*                                                                         *)
(* A contract call is one transaction: the Clarity VM runs it to the end   *)
(* and keeps its writes only if it returns (ok ...).  Every action below   *)
(* is one whole transaction.  uint is 128 bits wide; the bounded values    *)
(* used here stay far below 2^128, and (- a b) is only evaluated with      *)
(* b <= a, so no arithmetic aborts occur.                                  *)
(***************************************************************************)
EXTENDS Integers, Sequences, FiniteSets, TLC

VARIABLES
    block_height,         \* the chain tip seen by the next transaction
    points_per_checkin,   \* define-data-var
    streak_bonus,         \* define-data-var
    total_checkins,       \* define-data-var
    unique_users,         \* define-data-var
    contract_deployer,    \* define-data-var (V2): the fee recipient
    fee_amount,           \* define-data-var (V2)
    last_checkin,         \* define-map principal uint
    user_points,          \* define-map principal uint
    user_streak,          \* define-map principal uint
    user_total_checkins,  \* define-map principal uint
    user_fee_paid,        \* define-map principal uint (V2)
    tx,                   \* the last transaction: call, response, steps run
    history,              \* per principal, the heights of its credited check-ins
    breaker,              \* a CircuitBreaker object
    breakerRun,           \* the clock and the calls around the breaker
    bulkhead,             \* a Bulkhead object
    bulkheadCalls,        \* where each call of Bulkhead.execute is
    requestQueue,         \* a RequestQueue object
    requests,             \* the request objects given to the queue
    lruCache,             \* an LRUCache object
    lruUsed               \* the stored keys, least recently used first

config == <<points_per_checkin, streak_bonus, fee_amount, contract_deployer>>
stats  == <<total_checkins, unique_users>>
maps   == <<last_checkin, user_points, user_streak, user_total_checkins,
            user_fee_paid>>
ledger == <<config, stats, maps>>
chain  == <<block_height, ledger, tx, history>>
web    == <<breaker, breakerRun, bulkhead, bulkheadCalls, requestQueue,
            requests, lruCache, lruUsed>>
vars   == <<chain, web>>

---------------------------------------------------------------------------
(* Program constants *)

ERR_ALREADY_CHECKED_IN  == 100
ERR_NOT_AUTHORIZED      == 101
ERR_INVALID_AMOUNT      == 102
ERR_STX_TRANSFER_FAILED == 103
CHECKIN_FEE             == 1000
BLOCKS_PER_DAY          == 144
LIST_MAX                == 10

CONTRACT_OWNER    == "owner"
CONTRACT_DEPLOYER == "SP2KYZ"

---------------------------------------------------------------------------
(* Bounds of the model *)

StartBlock   == 1    \* block height of the first transaction
MaxBlocks    == 4    \* Spec: the chain is advanced at most this many times
MaxCheckins  == 5    \* Spec: check-in is called while total-checkins < this
MaxDays      == 8    \* SpecDaily: the chain is advanced this many days
MaxBlocksV2  == 1    \* SpecV2: the chain is advanced at most this many times
MaxCheckinsV2 == 2   \* SpecV2: check-in is called while total-checkins < this
MaxBlocksV1  == 1    \* SpecV1: the chain is advanced at most this many times
MaxCheckinsV1 == 2   \* SpecV1: calls are taken while total-checkins < this
MaxBlocksRead == 2   \* SpecRead: the chain is advanced at most this many times
MaxCheckinsRead == 3 \* SpecRead: check-in is called while total-checkins < this
MaxDaysBulk  == 1    \* SpecBulk: the chain is advanced this many days
MaxCheckinsBulk == 11  \* SpecBulk: calls are taken while total-checkins < this
MaxDaysMixed == 1    \* SpecMixed: the chain is advanced this many days
MaxCheckinsMixed == 5  \* SpecMixed: calls are taken while total-checkins < this
MaxDaysLive  == 2    \* SpecLive: the chain is advanced this many days
MaxBreakerCalls == 9   \* SpecBreaker: execute() is called this many times
MaxInflight  == 2    \* SpecBreaker: calls of execute() that overlap
MaxHalfTimeouts == 5   \* SpecBreaker: the clock goes this many half timeouts
MaxBulkheadCalls == 4  \* SpecBulkhead: execute() is called this many times
maxConcurrent == 1   \* SpecBulkhead: new Bulkhead(maxConcurrent)
MaxRequests  == 3    \* SpecQueue: requests given to enqueue
config_maxConcurrent == 2   \* SpecQueue: config.maxConcurrent
config_maxQueueSize == 2    \* SpecQueue: config.maxQueueSize
config_retries == 1  \* SpecQueue: config.retries
maxSize      == 2    \* SpecCache: new LRUCache(maxSize)
MaxOrderLen  == 4    \* SpecCache: set is called while accessOrder is shorter

Principals   == {CONTRACT_OWNER, "w1", "w2"}
Callers      == {CONTRACT_OWNER, "w1"}
DailyCallers == {"w1"}
Payers       == {CONTRACT_OWNER, "w2"}
Advances     == {BLOCKS_PER_DAY - 1, BLOCKS_PER_DAY}
NewPoints    == {0, 200}
NewBonus     == {0}
NewBonusV1   == {40}
NewFees      == {0, 5000}
NewDeployers == {"w1"}
AdminCallers == {CONTRACT_OWNER, "w1"}

---------------------------------------------------------------------------
(* Maps and built-ins *)

\* (default-to u0 (map-get? m k))
MapGet(m, k) == IF k \in DOMAIN m THEN m[k] ELSE 0

MapSet_dropped(m, k, v) == m

MapSet_all(m, k, v) == [x \in DOMAIN m \cup {k} |-> v]

\* (map-set m k v)
MapSet(m, k, v) == [x \in DOMAIN m \cup {k} |-> IF x = k THEN v ELSE m[x]]

EmptyMap == [x \in {} |-> 0]

\* stx-transfer?: 0 stands for (ok true), any other value n for (err un):
\* u3 for an amount of zero, u2 when sender and recipient are the same
\* principal, u1 when the sender's balance does not cover the amount.
\* funded says whether it does; the balance lives outside the contract.
stx_transfer(amount, sender, recipient, funded) ==
    IF amount = 0 THEN 3
    ELSE IF sender = recipient THEN 2
    ELSE IF ~funded THEN 1
    ELSE 0

\* the (err un) values stx-transfer? can return to check-in
StxErrors == {1, 2, 3}

get_user_points(user)         == MapGet(user_points, user)
get_user_streak(user)         == MapGet(user_streak, user)
get_last_checkin(user)        == MapGet(last_checkin, user)
get_user_total_checkins(user) == MapGet(user_total_checkins, user)
get_user_fee_paid(user)       == MapGet(user_fee_paid, user)

can_checkin_strict(user) ==
    LET last_block    == get_last_checkin(user)
        current_block == block_height
    IN  \/ last_block = 0
        \/ current_block - last_block > BLOCKS_PER_DAY

can_checkin_always(user) == TRUE

can_checkin_elapsed(user) ==
    LET last_block    == get_last_checkin(user)
        current_block == block_height
    IN  current_block - last_block >= BLOCKS_PER_DAY

can_checkin_new_only(user) ==
    LET last_block    == get_last_checkin(user)
    IN  last_block = 0

can_checkin(user) ==
    LET last_block    == get_last_checkin(user)
        current_block == block_height
    IN  \/ last_block = 0
        \/ current_block - last_block >= BLOCKS_PER_DAY

can_checkin_v1_always(last_map, user) == TRUE

can_checkin_v1_short_day(last_map, user) ==
    LET last_block    == MapGet(last_map, user)
        current_block == block_height
    IN  \/ last_block = 0
        \/ current_block - last_block >= BLOCKS_PER_DAY - 1

\* can-checkin of the first contract, reading the map as the running
\* transaction sees it
can_checkin_v1(last_map, user) ==
    LET last_block    == MapGet(last_map, user)
        current_block == block_height
    IN  \/ last_block = 0
        \/ current_block - last_block >= BLOCKS_PER_DAY

new_streak_keep(is_new_user, current_block, last_block, current_streak) ==
    IF ~is_new_user /\ current_block - last_block < BLOCKS_PER_DAY * 2
    THEN current_streak
    ELSE 1

new_streak_one_day(is_new_user, current_block, last_block, current_streak) ==
    IF ~is_new_user /\ current_block - last_block < BLOCKS_PER_DAY
    THEN current_streak + 1
    ELSE 1

new_streak_le(is_new_user, current_block, last_block, current_streak) ==
    IF ~is_new_user /\ current_block - last_block <= BLOCKS_PER_DAY * 2
    THEN current_streak + 1
    ELSE 1

new_streak_reset_zero(is_new_user, current_block, last_block, current_streak) ==
    IF ~is_new_user /\ current_block - last_block < BLOCKS_PER_DAY * 2
    THEN current_streak + 1
    ELSE 0

\* the new-streak binding of check-in
new_streak(is_new_user, current_block, last_block, current_streak) ==
    IF ~is_new_user /\ current_block - last_block < BLOCKS_PER_DAY * 2
    THEN current_streak + 1
    ELSE 1

earned_points_bonus_only(streak) ==
    LET streak_points == streak * streak_bonus
    IN  streak_points

earned_points_default(streak) ==
    LET streak_points == streak * 10
    IN  100 + streak_points

\* the streak-points and earned-points bindings of check-in
earned_points(streak) ==
    LET streak_points == streak * streak_bonus
    IN  points_per_checkin + streak_points

\* the same bindings in check-in of the first contract
new_streak_v1(is_new_user, current_block, last_block, current_streak) ==
    IF ~is_new_user /\ current_block - last_block < BLOCKS_PER_DAY * 2
    THEN current_streak + 1
    ELSE 1

earned_points_v1(streak) ==
    LET streak_points == streak * streak_bonus
    IN  points_per_checkin + streak_points

new_streak_internal_reset(is_new_user, current_block, last_block, current_streak) ==
    1

\* the same bindings in check-in-internal
new_streak_internal(is_new_user, current_block, last_block, current_streak) ==
    IF ~is_new_user /\ current_block - last_block < BLOCKS_PER_DAY * 2
    THEN current_streak + 1
    ELSE 1

earned_points_internal_capped(streak) ==
    LET streak_points == streak * streak_bonus
    IN  points_per_checkin + (IF streak_points > 70 THEN 70 ELSE streak_points)

earned_points_internal(streak) ==
    LET streak_points == streak * streak_bonus
    IN  points_per_checkin + streak_points

get_user_stats_new_only(user) ==
    [points         |-> get_user_points(user),
     streak         |-> get_user_streak(user),
     total_checkins |-> get_user_total_checkins(user),
     last_checkin   |-> get_last_checkin(user),
     fee_paid       |-> get_user_fee_paid(user),
     can_checkin    |-> get_last_checkin(user) = 0]

get_user_stats(user) ==
    [points         |-> get_user_points(user),
     streak         |-> get_user_streak(user),
     total_checkins |-> get_user_total_checkins(user),
     last_checkin   |-> get_last_checkin(user),
     fee_paid       |-> get_user_fee_paid(user),
     can_checkin    |-> can_checkin(user)]

get_global_stats ==
    [total_checkins     |-> total_checkins,
     unique_users       |-> unique_users,
     points_per_checkin |-> points_per_checkin,
     streak_bonus       |-> streak_bonus,
     fee_amount         |-> fee_amount,
     contract_deployer  |-> contract_deployer]

\* get-global-stats of the first contract
get_global_stats_v1 ==
    [total_checkins     |-> total_checkins,
     unique_users       |-> unique_users,
     points_per_checkin |-> points_per_checkin,
     streak_bonus       |-> streak_bonus]

\* (if is-new-user (var-set unique-users (+ (var-get unique-users) u1)) true)
count_unique_always(is_new_user, n) == n + 1

count_unique(is_new_user, n) == IF is_new_user THEN n + 1 ELSE n

---------------------------------------------------------------------------
(* Transaction log *)

\* One transaction: the function called, tx-sender, the principals it was
\* asked to check in, the block it ran in, its response ((ok ...) or
\* (err ucode)), the receipts of an (ok ...) response and the steps it ran.
TxRec(fn, sender, users, ok, code, receipts, steps) ==
    [fn |-> fn, sender |-> sender, users |-> users, height |-> block_height,
     ok |-> ok, code |-> code, receipts |-> receipts, steps |-> steps]

AssertStep(user, ok) == [op |-> "can-checkin", user |-> user, ok |-> ok]
TransferStep(amount, sender, recipient, code) ==
    [op |-> "stx-transfer", amount |-> amount, sender |-> sender,
     recipient |-> recipient, code |-> code]
WriteStep(user) == [op |-> "write", user |-> user]

Credit(h, user) ==
    [x \in DOMAIN h |-> IF x = user THEN Append(h[x], block_height) ELSE h[x]]

---------------------------------------------------------------------------
(* V2 contract, public functions *)

try_exits_never(code) == FALSE

try_exits_on_balance(code) == code = 1

\* try! on the response of stx-transfer?: TRUE when the call exits early
try_exits(code) == code # 0

check_in(user, funded) ==
    LET last_block            == get_last_checkin(user)
        current_block         == block_height
        current_points        == get_user_points(user)
        current_streak        == get_user_streak(user)
        current_user_checkins == get_user_total_checkins(user)
        current_fee_paid      == get_user_fee_paid(user)
        is_new_user           == last_block = 0
        fee                   == fee_amount
        paid == stx_transfer(fee, user, contract_deployer, funded)
        streak == new_streak(is_new_user, current_block, last_block,
                             current_streak)
        earned == earned_points(streak)
    IN  IF ~can_checkin(user)
        THEN /\ tx' = TxRec("check-in", user, <<user>>, FALSE, ERR_ALREADY_CHECKED_IN,
                            <<>>, <<AssertStep(user, FALSE)>>)
             /\ UNCHANGED <<block_height, ledger, history>>
        ELSE IF try_exits(paid)
        THEN /\ tx' = TxRec("check-in", user, <<user>>, FALSE, paid, <<>>,
                            <<AssertStep(user, TRUE),
                              TransferStep(fee, user, contract_deployer, paid)>>)
             /\ UNCHANGED <<block_height, ledger, history>>
        ELSE /\ last_checkin' = MapSet(last_checkin, user, current_block)
             /\ user_points' = MapSet(user_points, user,
                                      current_points + earned)
             /\ user_streak' = MapSet(user_streak, user, streak)
             /\ user_total_checkins' = MapSet(user_total_checkins, user,
                                              current_user_checkins + 1)
             /\ user_fee_paid' = MapSet(user_fee_paid, user,
                                        current_fee_paid + fee)
             /\ total_checkins' = total_checkins + 1
             /\ unique_users' = count_unique(is_new_user, unique_users)
             /\ tx' = TxRec("check-in", user, <<user>>, TRUE, 0,
                            <<[ok |-> TRUE,
                               earned |-> earned,
                               total_points |-> current_points + earned,
                               streak |-> streak,
                               total_checkins |-> current_user_checkins + 1,
                               fee_paid |-> fee]>>,
                            <<AssertStep(user, TRUE),
                              TransferStep(fee, user, contract_deployer, paid),
                              WriteStep(user)>>)
             /\ history' = Credit(history, user)
             /\ UNCHANGED <<block_height, config>>

set_points_per_checkin_any(sender, new_points) ==
    /\ IF sender # CONTRACT_OWNER
       THEN /\ tx' = TxRec("set-points-per-checkin", sender, <<>>, FALSE,
                           ERR_NOT_AUTHORIZED, <<>>, <<>>)
            /\ UNCHANGED points_per_checkin
       ELSE /\ points_per_checkin' = new_points
            /\ tx' = TxRec("set-points-per-checkin", sender, <<>>, TRUE, new_points,
                           <<>>, <<>>)
    /\ UNCHANGED <<block_height, streak_bonus, fee_amount, contract_deployer,
                   stats, maps, history>>

set_points_per_checkin(sender, new_points) ==
    /\ IF sender # CONTRACT_OWNER
       THEN /\ tx' = TxRec("set-points-per-checkin", sender, <<>>, FALSE,
                           ERR_NOT_AUTHORIZED, <<>>, <<>>)
            /\ UNCHANGED points_per_checkin
       ELSE IF ~(new_points > 0)
       THEN /\ tx' = TxRec("set-points-per-checkin", sender, <<>>, FALSE,
                           ERR_INVALID_AMOUNT, <<>>, <<>>)
            /\ UNCHANGED points_per_checkin
       ELSE /\ points_per_checkin' = new_points
            /\ tx' = TxRec("set-points-per-checkin", sender, <<>>, TRUE, new_points,
                           <<>>, <<>>)
    /\ UNCHANGED <<block_height, streak_bonus, fee_amount, contract_deployer,
                   stats, maps, history>>

set_streak_bonus_open(sender, new_bonus) ==
    /\ streak_bonus' = new_bonus
    /\ tx' = TxRec("set-streak-bonus", sender, <<>>, TRUE, new_bonus, <<>>, <<>>)
    /\ UNCHANGED <<block_height, points_per_checkin, fee_amount,
                   contract_deployer, stats, maps, history>>

set_streak_bonus(sender, new_bonus) ==
    /\ IF sender # CONTRACT_OWNER
       THEN /\ tx' = TxRec("set-streak-bonus", sender, <<>>, FALSE,
                           ERR_NOT_AUTHORIZED, <<>>, <<>>)
            /\ UNCHANGED streak_bonus
       ELSE /\ streak_bonus' = new_bonus
            /\ tx' = TxRec("set-streak-bonus", sender, <<>>, TRUE, new_bonus,
                           <<>>, <<>>)
    /\ UNCHANGED <<block_height, points_per_checkin, fee_amount,
                   contract_deployer, stats, maps, history>>

set_fee_amount_any(sender, new_fee) ==
    /\ IF sender # CONTRACT_OWNER
       THEN /\ tx' = TxRec("set-fee-amount", sender, <<>>, FALSE,
                           ERR_NOT_AUTHORIZED, <<>>, <<>>)
            /\ UNCHANGED fee_amount
       ELSE /\ fee_amount' = new_fee
            /\ tx' = TxRec("set-fee-amount", sender, <<>>, TRUE, new_fee, <<>>, <<>>)
    /\ UNCHANGED <<block_height, points_per_checkin, streak_bonus,
                   contract_deployer, stats, maps, history>>

set_fee_amount(sender, new_fee) ==
    /\ IF sender # CONTRACT_OWNER
       THEN /\ tx' = TxRec("set-fee-amount", sender, <<>>, FALSE,
                           ERR_NOT_AUTHORIZED, <<>>, <<>>)
            /\ UNCHANGED fee_amount
       ELSE IF ~(new_fee > 0)
       THEN /\ tx' = TxRec("set-fee-amount", sender, <<>>, FALSE,
                           ERR_INVALID_AMOUNT, <<>>, <<>>)
            /\ UNCHANGED fee_amount
       ELSE /\ fee_amount' = new_fee
            /\ tx' = TxRec("set-fee-amount", sender, <<>>, TRUE, new_fee, <<>>, <<>>)
    /\ UNCHANGED <<block_height, points_per_checkin, streak_bonus,
                   contract_deployer, stats, maps, history>>

update_contract_deployer_open(sender, new_deployer) ==
    /\ contract_deployer' = new_deployer
    /\ tx' = TxRec("update-contract-deployer", sender, <<>>, TRUE, 0, <<>>, <<>>)
    /\ UNCHANGED <<block_height, points_per_checkin, streak_bonus, fee_amount,
                   stats, maps, history>>

update_contract_deployer(sender, new_deployer) ==
    /\ IF sender # CONTRACT_OWNER
       THEN /\ tx' = TxRec("update-contract-deployer", sender, <<>>, FALSE,
                           ERR_NOT_AUTHORIZED, <<>>, <<>>)
            /\ UNCHANGED contract_deployer
       ELSE /\ contract_deployer' = new_deployer
            /\ tx' = TxRec("update-contract-deployer", sender, <<>>, TRUE, 0,
                           <<>>, <<>>)
    /\ UNCHANGED <<block_height, points_per_checkin, streak_bonus, fee_amount,
                   stats, maps, history>>

\* a call of the read-only function get-user-stats: the tuple is the response
call_get_user_stats(sender, user) ==
    /\ tx' = TxRec("get-user-stats", sender, <<user>>, TRUE, 0,
                   <<get_user_stats(user)>>, <<>>)
    /\ UNCHANGED <<block_height, ledger, history>>

\* a call of the read-only function get-global-stats
call_get_global_stats(sender) ==
    /\ tx' = TxRec("get-global-stats", sender, <<>>, TRUE, 0,
                   <<get_global_stats>>, <<>>)
    /\ UNCHANGED <<block_height, ledger, history>>

---------------------------------------------------------------------------
(* First contract (lines 1-237), public functions *)

check_in_v1_fee_recorded(user, funded) ==
    LET last_block            == get_last_checkin(user)
        current_block         == block_height
        current_points        == get_user_points(user)
        current_streak        == get_user_streak(user)
        current_user_checkins == get_user_total_checkins(user)
        is_new_user           == last_block = 0
        paid == stx_transfer(CHECKIN_FEE, user, CONTRACT_OWNER, funded)
        streak == new_streak_v1(is_new_user, current_block, last_block,
                                current_streak)
        earned == earned_points_v1(streak)
    IN  IF ~can_checkin_v1(last_checkin, user)
        THEN /\ tx' = TxRec("check-in", user, <<user>>, FALSE, ERR_ALREADY_CHECKED_IN,
                            <<>>, <<AssertStep(user, FALSE)>>)
             /\ UNCHANGED <<block_height, ledger, history>>
        ELSE IF try_exits(paid)
        THEN /\ tx' = TxRec("check-in", user, <<user>>, FALSE, paid, <<>>,
                            <<AssertStep(user, TRUE),
                              TransferStep(CHECKIN_FEE, user, CONTRACT_OWNER,
                                           paid)>>)
             /\ UNCHANGED <<block_height, ledger, history>>
        ELSE /\ last_checkin' = MapSet(last_checkin, user, current_block)
             /\ user_points' = MapSet(user_points, user,
                                      current_points + earned)
             /\ user_streak' = MapSet(user_streak, user, streak)
             /\ user_total_checkins' = MapSet(user_total_checkins, user,
                                              current_user_checkins + 1)
             /\ total_checkins' = total_checkins + 1
             /\ unique_users' = count_unique(is_new_user, unique_users)
             /\ tx' = TxRec("check-in", user, <<user>>, TRUE, 0,
                            <<[ok |-> TRUE,
                               earned |-> earned,
                               total_points |-> current_points + earned,
                               streak |-> streak,
                               total_checkins |-> current_user_checkins + 1]>>,
                            <<AssertStep(user, TRUE),
                              TransferStep(CHECKIN_FEE, user, CONTRACT_OWNER,
                                           paid),
                              WriteStep(user)>>)
             /\ history' = Credit(history, user)
             /\ user_fee_paid' = MapSet(user_fee_paid, user,
                                        get_user_fee_paid(user) + CHECKIN_FEE)
             /\ UNCHANGED <<block_height, config>>

check_in_v1(user, funded) ==
    LET last_block            == get_last_checkin(user)
        current_block         == block_height
        current_points        == get_user_points(user)
        current_streak        == get_user_streak(user)
        current_user_checkins == get_user_total_checkins(user)
        is_new_user           == last_block = 0
        paid == stx_transfer(CHECKIN_FEE, user, CONTRACT_OWNER, funded)
        streak == new_streak_v1(is_new_user, current_block, last_block,
                                current_streak)
        earned == earned_points_v1(streak)
    IN  IF ~can_checkin_v1(last_checkin, user)
        THEN /\ tx' = TxRec("check-in", user, <<user>>, FALSE, ERR_ALREADY_CHECKED_IN,
                            <<>>, <<AssertStep(user, FALSE)>>)
             /\ UNCHANGED <<block_height, ledger, history>>
        ELSE IF try_exits(paid)
        THEN /\ tx' = TxRec("check-in", user, <<user>>, FALSE, paid, <<>>,
                            <<AssertStep(user, TRUE),
                              TransferStep(CHECKIN_FEE, user, CONTRACT_OWNER,
                                           paid)>>)
             /\ UNCHANGED <<block_height, ledger, history>>
        ELSE /\ last_checkin' = MapSet(last_checkin, user, current_block)
             /\ user_points' = MapSet(user_points, user,
                                      current_points + earned)
             /\ user_streak' = MapSet(user_streak, user, streak)
             /\ user_total_checkins' = MapSet(user_total_checkins, user,
                                              current_user_checkins + 1)
             /\ total_checkins' = total_checkins + 1
             /\ unique_users' = count_unique(is_new_user, unique_users)
             /\ tx' = TxRec("check-in", user, <<user>>, TRUE, 0,
                            <<[ok |-> TRUE,
                               earned |-> earned,
                               total_points |-> current_points + earned,
                               streak |-> streak,
                               total_checkins |-> current_user_checkins + 1]>>,
                            <<AssertStep(user, TRUE),
                              TransferStep(CHECKIN_FEE, user, CONTRACT_OWNER,
                                           paid),
                              WriteStep(user)>>)
             /\ history' = Credit(history, user)
             /\ UNCHANGED <<block_height, config, user_fee_paid>>

\* the tuple check-in of the first contract returns for user in the current
\* state, when it passes can-checkin and the fee transfer
check_in_v1_result(user) ==
    LET last_block            == get_last_checkin(user)
        current_block         == block_height
        current_points        == get_user_points(user)
        current_streak        == get_user_streak(user)
        current_user_checkins == get_user_total_checkins(user)
        is_new_user           == last_block = 0
        streak == new_streak_v1(is_new_user, current_block, last_block,
                                current_streak)
        earned == earned_points_v1(streak)
    IN  [ok |-> TRUE,
         earned |-> earned,
         total_points |-> current_points + earned,
         streak |-> streak,
         total_checkins |-> current_user_checkins + 1]

\* What one run of a function sees and leaves: the maps and data vars that
\* check-in-internal reads and writes, the responses returned so far, the
\* steps run so far and the credited check-ins.
Store ==
    [last_checkin |-> last_checkin, user_points |-> user_points,
     user_streak |-> user_streak, user_total_checkins |-> user_total_checkins,
     total_checkins |-> total_checkins, unique_users |-> unique_users,
     out |-> <<>>, steps |-> <<>>, history |-> history]

\* check-in-internal applied to user in store s.  asserts! leaves the private
\* function with (err u100): that response is the function's value, the
\* caller goes on.
check_in_internal(s, user) ==
    LET last_block            == MapGet(s.last_checkin, user)
        current_block         == block_height
        current_points        == MapGet(s.user_points, user)
        current_streak        == MapGet(s.user_streak, user)
        current_user_checkins == MapGet(s.user_total_checkins, user)
        is_new_user           == last_block = 0
        streak == new_streak_internal(is_new_user, current_block, last_block,
                                      current_streak)
        earned == earned_points_internal(streak)
    IN  IF ~can_checkin_v1(s.last_checkin, user)
        THEN [s EXCEPT !.out = Append(@, [ok |-> FALSE,
                                          code |-> ERR_ALREADY_CHECKED_IN]),
                       !.steps = Append(@, AssertStep(user, FALSE))]
        ELSE [s EXCEPT
                !.last_checkin = MapSet(@, user, current_block),
                !.user_points = MapSet(@, user, current_points + earned),
                !.user_streak = MapSet(@, user, streak),
                !.user_total_checkins = MapSet(@, user,
                                               current_user_checkins + 1),
                !.total_checkins = @ + 1,
                !.unique_users = count_unique(is_new_user, @),
                !.out = Append(@, [ok |-> TRUE,
                                   earned |-> earned,
                                   total_points |-> current_points + earned,
                                   streak |-> streak,
                                   total_checkins |-> current_user_checkins + 1]),
                !.steps = Append(Append(@, AssertStep(user, TRUE)),
                                 WriteStep(user)),
                !.history = Credit(@, user)]

\* (map check-in-internal users), left to right
RECURSIVE map_check_in_internal(_, _)
map_check_in_internal(s, users) ==
    IF users = <<>> THEN s
    ELSE map_check_in_internal(check_in_internal(s, Head(users)), Tail(users))

fee_total_flat(users) == CHECKIN_FEE

\* the fee-total binding of bulk-check-in
fee_total(users) == Len(users) * CHECKIN_FEE

bulk_check_in(sender, users, funded) ==
    LET paid == stx_transfer(fee_total(users), sender, CONTRACT_OWNER, funded)
        done == map_check_in_internal(Store, users)
    IN  IF ~(Len(users) > 0)
        THEN /\ tx' = TxRec("bulk-check-in", sender, users, FALSE, ERR_INVALID_AMOUNT,
                            <<>>, <<>>)
             /\ UNCHANGED <<block_height, ledger, history>>
        ELSE IF try_exits(paid)
        THEN /\ tx' = TxRec("bulk-check-in", sender, users, FALSE, paid, <<>>,
                            <<TransferStep(fee_total(users), sender, CONTRACT_OWNER,
                                           paid)>>)
             /\ UNCHANGED <<block_height, ledger, history>>
        ELSE /\ last_checkin' = done.last_checkin
             /\ user_points' = done.user_points
             /\ user_streak' = done.user_streak
             /\ user_total_checkins' = done.user_total_checkins
             /\ total_checkins' = done.total_checkins
             /\ unique_users' = done.unique_users
             /\ tx' = TxRec("bulk-check-in", sender, users, TRUE, 0, done.out,
                            <<TransferStep(fee_total(users), sender, CONTRACT_OWNER,
                                           paid)>> \o done.steps)
             /\ history' = done.history
             /\ UNCHANGED <<block_height, config, user_fee_paid>>

fits_list_type_any(users) == TRUE

\* the parameter type (list 10 principal): a longer list is not a value of
\* the type
fits_list_type(users) == Len(users) <= LIST_MAX

\* a contract call of bulk-check-in: the VM checks the argument against the
\* parameter type before it runs the function; a call it refuses runs no step
\* of the function and has no response of the contract (ok FALSE, code 0)
call_bulk_check_in(sender, users, funded) ==
    IF ~fits_list_type(users)
    THEN /\ tx' = TxRec("bulk-check-in", sender, users, FALSE, 0, <<>>, <<>>)
         /\ UNCHANGED <<block_height, ledger, history>>
    ELSE bulk_check_in(sender, users, funded)

\* a call of the read-only function get-global-stats of the first contract
call_get_global_stats_v1(sender) ==
    /\ tx' = TxRec("get-global-stats", sender, <<>>, TRUE, 0,
                   <<get_global_stats_v1>>, <<>>)
    /\ UNCHANGED <<block_height, ledger, history>>

set_points_per_checkin_v1(sender, new_points) ==
    set_points_per_checkin(sender, new_points)

set_streak_bonus_v1(sender, new_bonus) ==
    set_streak_bonus(sender, new_bonus)

---------------------------------------------------------------------------
(* The chain *)

\* d more blocks are mined; last is the highest block the model goes to
Mine(d, last) ==
    /\ block_height + d <= last
    /\ block_height' = block_height + d
    /\ UNCHANGED <<ledger, tx, history>>

---------------------------------------------------------------------------
(* src/web/circuit-breaker.js, class CircuitBreaker.  JavaScript runs one   *)
(* piece of code at a time: execute() runs from its start to `await fn()`   *)
(* without interruption, and again from the settling of fn() to its end.    *)
(* Each of the two pieces is one action; calls may overlap between them.    *)

\* config defaults
failureThreshold == 5
successThreshold == 2
timeout          == 60000

Null == "null"

\* new CircuitBreaker()
BreakerNew ==
    [state |-> "CLOSED", failureCount |-> 0, successCount |-> 0,
     lastFailureTime |-> Null, nextAttemptTime |-> Null]

\* the surroundings of the breaker: Date.now(), the calls of execute() whose
\* fn() has not settled, the number of calls made, what the last piece of
\* code run was, and the number of calls that succeeded since the breaker
\* last became HALF_OPEN
BreakerRunNew ==
    [now |-> 0, inflight |-> 0, calls |-> 0, last |-> "new",
     sinceHalfOpen |-> 0]

\* open()
open(b, now) ==
    [b EXCEPT !.state = "OPEN", !.nextAttemptTime = now + timeout]

\* reset()
reset(b) ==
    [b EXCEPT !.state = "CLOSED", !.failureCount = 0, !.successCount = 0,
              !.lastFailureTime = Null, !.nextAttemptTime = Null]

\* execute(fn) up to `await fn()`: an OPEN breaker throws before its
\* nextAttemptTime and becomes HALF_OPEN from then on
execute_call ==
    /\ breakerRun.calls < MaxBreakerCalls
    /\ breakerRun.inflight < MaxInflight
    /\ IF breaker.state = "OPEN" /\ ~(breakerRun.now >= breaker.nextAttemptTime)
       THEN /\ breaker' = breaker
            /\ breakerRun' = [breakerRun EXCEPT !.calls = @ + 1,
                                                !.last = "thrown"]
       ELSE /\ breaker' = [breaker EXCEPT
                             !.state = IF @ = "OPEN" THEN "HALF_OPEN" ELSE @]
            /\ breakerRun' = [breakerRun EXCEPT
                                !.calls = @ + 1,
                                !.inflight = @ + 1,
                                !.last = "called",
                                !.sinceHalfOpen =
                                    IF breaker.state = "OPEN" THEN 0 ELSE @]
    /\ UNCHANGED <<chain, bulkhead, bulkheadCalls, requestQueue, requests,
                   lruCache, lruUsed>>

\* execute(fn) after fn() resolved
execute_resolved ==
    /\ breakerRun.inflight > 0
    /\ breaker' =
          IF breaker.state = "HALF_OPEN"
          THEN LET counted == [breaker EXCEPT !.successCount = @ + 1]
               IN  IF counted.successCount >= successThreshold
                   THEN reset(counted)
                   ELSE counted
          ELSE [breaker EXCEPT !.failureCount = 0]
    /\ breakerRun' = [breakerRun EXCEPT
                        !.inflight = @ - 1,
                        !.last = "resolved",
                        !.sinceHalfOpen =
                            IF breaker.state = "HALF_OPEN" THEN @ + 1 ELSE @]
    /\ UNCHANGED <<chain, bulkhead, bulkheadCalls, requestQueue, requests,
                   lruCache, lruUsed>>

\* execute(fn) after fn() rejected
execute_rejected ==
    /\ breakerRun.inflight > 0
    /\ breaker' =
          LET counted == [breaker EXCEPT
                            !.failureCount = @ + 1,
                            !.lastFailureTime = breakerRun.now]
          IN  IF counted.failureCount >= failureThreshold
              THEN open(counted, breakerRun.now)
              ELSE counted
    /\ breakerRun' = [breakerRun EXCEPT !.inflight = @ - 1,
                                        !.last = "rejected"]
    /\ UNCHANGED <<chain, bulkhead, bulkheadCalls, requestQueue, requests,
                   lruCache, lruUsed>>

\* time passes, half a timeout at a time
BreakerTick ==
    /\ breakerRun.now < MaxHalfTimeouts * (timeout \div 2)
    /\ breakerRun' = [breakerRun EXCEPT !.now = @ + timeout \div 2,
                                        !.last = "tick"]
    /\ UNCHANGED <<chain, breaker, bulkhead, bulkheadCalls, requestQueue,
                   requests, lruCache, lruUsed>>

---------------------------------------------------------------------------
(* src/web/circuit-breaker.js, class Bulkhead.  execute() has three pieces: *)
(* up to the first await (the wait for a place, or fn()), from the wake-up  *)
(* of a waiter to fn(), and the finally block after fn() settled.           *)

BulkheadCallIds == 1..MaxBulkheadCalls

\* new Bulkhead(maxConcurrent)
BulkheadNew == [active |-> 0, queue |-> <<>>]

\* where each call of execute() is: not made, waiting for its promise to be
\* resolved, resolved and not yet resumed, running fn(), returned
BulkheadCallsNew == [c \in BulkheadCallIds |-> "new"]

\* execute(fn) to its first await
bulkhead_execute(c) ==
    /\ bulkheadCalls[c] = "new"
    /\ IF bulkhead.active >= maxConcurrent
       THEN /\ bulkhead' = [bulkhead EXCEPT !.queue = Append(@, c)]
            /\ bulkheadCalls' = [bulkheadCalls EXCEPT ![c] = "waiting"]
       ELSE /\ bulkhead' = [bulkhead EXCEPT !.active = @ + 1]
            /\ bulkheadCalls' = [bulkheadCalls EXCEPT ![c] = "running"]
    /\ UNCHANGED <<chain, breaker, breakerRun, requestQueue, requests,
                   lruCache, lruUsed>>

\* execute(fn) of a waiter whose promise was resolved: this.active++, fn()
bulkhead_resume(c) ==
    /\ bulkheadCalls[c] = "resolved"
    /\ bulkhead' = [bulkhead EXCEPT !.active = @ + 1]
    /\ bulkheadCalls' = [bulkheadCalls EXCEPT ![c] = "running"]
    /\ UNCHANGED <<chain, breaker, breakerRun, requestQueue, requests,
                   lruCache, lruUsed>>

\* the finally block: this.active--, the first waiter's promise is resolved
bulkhead_finally(c) ==
    /\ bulkheadCalls[c] = "running"
    /\ bulkhead' = [bulkhead EXCEPT
                      !.active = @ - 1,
                      !.queue = IF @ = <<>> THEN @ ELSE Tail(@)]
    /\ bulkheadCalls' =
          [x \in BulkheadCallIds |->
              IF x = c THEN "returned"
              ELSE IF bulkhead.queue # <<>> /\ x = Head(bulkhead.queue)
                   THEN "resolved"
                   ELSE bulkheadCalls[x]]
    /\ UNCHANGED <<chain, breaker, breakerRun, requestQueue, requests,
                   lruCache, lruUsed>>

---------------------------------------------------------------------------
(* src/web/request-queue.js, class RequestQueue.  process() runs without    *)
(* interruption from its call, or from the settling of the request it       *)
(* awaits, to its next await or its return.                                 *)

RequestIds == 1..MaxRequests

\* new RequestQueue(config); paused is not set by the constructor and reads
\* as false
RequestQueueNew ==
    [queue |-> <<>>, active |-> 0, completed |-> 0, failed |-> 0,
     paused |-> FALSE]

\* the request objects: where each is (not enqueued, refused by enqueue,
\* queued, active, done, dropped by clear), its retries field, the number of
\* times it was executed and the number of times its callback was called
RequestsNew ==
    [r \in RequestIds |->
        [at |-> "new", retries |-> 0, attempts |-> 0, callbacks |-> 0]]

process_over_limit(s) ==
    IF Len(s.q.queue) > 0
    THEN LET request == Head(s.q.queue)
         IN  [q |-> [s.q EXCEPT !.queue = Tail(@), !.active = @ + 1],
              r |-> [s.r EXCEPT ![request].at = "active",
                                ![request].attempts = @ + 1]]
    ELSE s

\* process(), from the test of its loop to `await this.executeRequest`
\* (the request at the head of the queue is started) or to its return;
\* s.q is the queue object and s.r the request objects
process(s) ==
    IF s.q.active < config_maxConcurrent /\ Len(s.q.queue) > 0
    THEN LET request == Head(s.q.queue)
         IN  [q |-> [s.q EXCEPT !.queue = Tail(@), !.active = @ + 1],
              r |-> [s.r EXCEPT ![request].at = "active",
                                ![request].attempts = @ + 1]]
    ELSE s

\* enqueue(request)
enqueue(request) ==
    /\ requests[request].at = "new"
    /\ IF Len(requestQueue.queue) >= config_maxQueueSize
       THEN /\ requests' = [requests EXCEPT ![request].at = "refused"]
            /\ UNCHANGED requestQueue
       ELSE LET pushed ==
                    [q |-> [requestQueue EXCEPT !.queue = Append(@, request)],
                     r |-> [requests EXCEPT ![request].at = "queued",
                                            ![request].retries = 0]]
                after == process(pushed)
            IN  /\ requestQueue' = after.q
                /\ requests' = after.r
    /\ UNCHANGED <<chain, breaker, breakerRun, bulkhead, bulkheadCalls,
                   lruCache, lruUsed>>

\* process() after the request it awaits settled (resolved says how): the
\* try or the catch block, the finally block with its call of process(), and
\* the next test of the loop
settled(request, resolved) ==
    /\ requests[request].at = "active"
    /\ LET handled ==
               IF resolved
               THEN [q |-> [requestQueue EXCEPT !.completed = @ + 1],
                     r |-> [requests EXCEPT ![request].at = "done",
                                            ![request].callbacks = @ + 1]]
               ELSE IF requests[request].retries < config_retries
               THEN [q |-> [requestQueue EXCEPT !.queue = Append(@, request)],
                     r |-> [requests EXCEPT ![request].at = "queued",
                                            ![request].retries = @ + 1]]
               ELSE [q |-> [requestQueue EXCEPT !.failed = @ + 1],
                     r |-> [requests EXCEPT ![request].at = "done",
                                            ![request].callbacks = @ + 1]]
           released == [handled EXCEPT !.q.active = @ - 1]
           after    == process(process(released))
       IN  /\ requestQueue' = after.q
           /\ requests' = after.r
    /\ UNCHANGED <<chain, breaker, breakerRun, bulkhead, bulkheadCalls,
                   lruCache, lruUsed>>

\* clear()
clear ==
    /\ requestQueue' = [requestQueue EXCEPT !.queue = <<>>]
    /\ requests' = [r \in RequestIds |->
                      IF requests[r].at = "queued"
                      THEN [requests[r] EXCEPT !.at = "cleared"]
                      ELSE requests[r]]
    /\ UNCHANGED <<chain, breaker, breakerRun, bulkhead, bulkheadCalls,
                   lruCache, lruUsed>>

\* pause()
pause ==
    /\ requestQueue' = [requestQueue EXCEPT !.paused = TRUE]
    /\ UNCHANGED <<chain, breaker, breakerRun, bulkhead, bulkheadCalls,
                   requests, lruCache, lruUsed>>

\* resume()
resume ==
    /\ LET after == process([q |-> [requestQueue EXCEPT !.paused = FALSE],
                             r |-> requests])
       IN  /\ requestQueue' = after.q
           /\ requests' = after.r
    /\ UNCHANGED <<chain, breaker, breakerRun, bulkhead, bulkheadCalls,
                   lruCache, lruUsed>>

---------------------------------------------------------------------------
(* src/unnamed/part_009, class LRUCache extends CacheStrategy, used without *)
(* a ttl: timestamps stays empty and no timer is set.                       *)

LruKeys   == {"a", "b", "c"}
LruValues == {"v"}

\* new LRUCache(maxSize)
LRUCacheNew == [data |-> [k \in {} |-> "v"], accessOrder |-> <<>>]

\* array.filter(k => k !== key)
Filter(order, key) == SelectSeq(order, LAMBDA k : k # key)

\* map.delete(key)
MapDelete(data, key) == [k \in DOMAIN data \ {key} |-> data[k]]

\* LRUCache.get(key)
lru_get(key) ==
    /\ IF key \notin DOMAIN lruCache.data
       THEN UNCHANGED <<lruCache, lruUsed>>
       ELSE /\ lruCache' = [lruCache EXCEPT
                              !.accessOrder = Append(Filter(@, key), key)]
            /\ lruUsed' = Append(Filter(lruUsed, key), key)
    /\ UNCHANGED <<chain, breaker, breakerRun, bulkhead, bulkheadCalls,
                   requestQueue, requests>>

\* LRUCache.set(key, value); shift() of an empty array returns undefined and
\* delete(undefined) removes nothing
lru_set(key, value) ==
    LET has     == key \in DOMAIN lruCache.data
        order   == IF has THEN Filter(lruCache.accessOrder, key)
                   ELSE lruCache.accessOrder
        evicts  == Cardinality(DOMAIN lruCache.data) >= maxSize /\ ~has
        shifted == IF evicts /\ order # <<>> THEN Tail(order) ELSE order
        kept    == IF evicts /\ order # <<>>
                   THEN MapDelete(lruCache.data, Head(order))
                   ELSE lruCache.data
    IN  /\ Len(lruCache.accessOrder) < MaxOrderLen
        /\ lruCache' =
              [data |-> [k \in DOMAIN kept \cup {key} |->
                            IF k = key THEN value ELSE kept[k]],
               accessOrder |-> Append(shifted, key)]
        /\ lruUsed' =
              LET stored == DOMAIN lruCache'.data
              IN  Append(SelectSeq(lruUsed,
                                   LAMBDA k : k # key /\ k \in stored), key)
        /\ UNCHANGED <<chain, breaker, breakerRun, bulkhead, bulkheadCalls,
                       requestQueue, requests>>

\* CacheStrategy.delete(key), inherited
lru_delete(key) ==
    /\ lruCache' = [lruCache EXCEPT !.data = MapDelete(@, key)]
    /\ lruUsed' = Filter(lruUsed, key)
    /\ UNCHANGED <<chain, breaker, breakerRun, bulkhead, bulkheadCalls,
                   requestQueue, requests>>

\* CacheStrategy.clear(), inherited
lru_clear ==
    /\ lruCache' = [lruCache EXCEPT !.data = [k \in {} |-> "v"]]
    /\ lruUsed' = <<>>
    /\ UNCHANGED <<chain, breaker, breakerRun, bulkhead, bulkheadCalls,
                   requestQueue, requests>>

\* the objects of the web layer as constructed
WebInit ==
    /\ breaker = BreakerNew
    /\ breakerRun = BreakerRunNew
    /\ bulkhead = BulkheadNew
    /\ bulkheadCalls = BulkheadCallsNew
    /\ requestQueue = RequestQueueNew
    /\ requests = RequestsNew
    /\ lruCache = LRUCacheNew
    /\ lruUsed = <<>>

---------------------------------------------------------------------------
(* Specifications *)

Init ==
    /\ block_height = StartBlock
    /\ points_per_checkin = 100
    /\ streak_bonus = 10
    /\ total_checkins = 0
    /\ unique_users = 0
    /\ contract_deployer = CONTRACT_DEPLOYER
    /\ fee_amount = CHECKIN_FEE
    /\ last_checkin = EmptyMap
    /\ user_points = EmptyMap
    /\ user_streak = EmptyMap
    /\ user_total_checkins = EmptyMap
    /\ user_fee_paid = EmptyMap
    /\ tx = [fn |-> "deploy", sender |-> CONTRACT_OWNER, users |-> <<>>,
             height |-> StartBlock, ok |-> TRUE, code |-> 0,
             receipts |-> <<>>, steps |-> <<>>]
    /\ history = [p \in Principals |-> <<>>]
    /\ WebInit

CheckIn ==
    /\ total_checkins < MaxCheckins
    /\ \E user \in Callers, funded \in BOOLEAN : check_in(user, funded)
    /\ UNCHANGED web
MineBlocks ==
    /\ \E d \in Advances : Mine(d, StartBlock + MaxBlocks * BLOCKS_PER_DAY)
    /\ UNCHANGED web

\* the V2 check-in under a clock that advances by up to a day at a time
Next ==
    \/ MineBlocks
    \/ CheckIn

Spec == Init /\ [][Next]_vars

SetPointsPerCheckin ==
    /\ \E sender \in AdminCallers, n \in NewPoints :
           set_points_per_checkin(sender, n)
    /\ UNCHANGED web
SetStreakBonus ==
    /\ \E sender \in AdminCallers, n \in NewBonus : set_streak_bonus(sender, n)
    /\ UNCHANGED web
SetFeeAmount ==
    /\ \E sender \in AdminCallers, n \in NewFees : set_fee_amount(sender, n)
    /\ UNCHANGED web
UpdateContractDeployer ==
    /\ \E sender \in AdminCallers, p \in NewDeployers :
           update_contract_deployer(sender, p)
    /\ UNCHANGED web
CheckInV2 ==
    /\ total_checkins < MaxCheckinsV2
    /\ \E user \in Callers, funded \in BOOLEAN : check_in(user, funded)
    /\ UNCHANGED web
MineBlocksV2 ==
    /\ \E d \in Advances : Mine(d, StartBlock + MaxBlocksV2 * BLOCKS_PER_DAY)
    /\ UNCHANGED web

\* the whole V2 contract
NextV2 ==
    \/ MineBlocksV2
    \/ CheckInV2
    \/ SetPointsPerCheckin
    \/ SetStreakBonus
    \/ SetFeeAmount
    \/ UpdateContractDeployer

SpecV2 == Init /\ [][NextV2]_vars

DailyCheckIn ==
    /\ \E user \in DailyCallers, funded \in BOOLEAN : check_in(user, funded)
    /\ UNCHANGED web
MineDay ==
    /\ Mine(BLOCKS_PER_DAY, StartBlock + MaxDays * BLOCKS_PER_DAY)
    /\ UNCHANGED web

\* one principal using the V2 check-in, the clock advancing a day at a time
NextDaily ==
    \/ MineDay
    \/ DailyCheckIn

SpecDaily == Init /\ [][NextDaily]_vars

\* the lists passed to bulk-check-in: empty, single, distinct, repeated
Lists ==
    {<<>>, <<"w1">>, <<"w2">>, <<"w1", "w2">>, <<"w2", "w1">>, <<"w1", "w1">>}

CheckInV1 ==
    /\ total_checkins < MaxCheckinsV1
    /\ \E user \in Callers, funded \in BOOLEAN : check_in_v1(user, funded)
    /\ UNCHANGED web
BulkCheckIn ==
    /\ total_checkins < MaxCheckinsV1
    /\ \E sender \in Payers, users \in Lists, funded \in BOOLEAN :
           bulk_check_in(sender, users, funded)
    /\ UNCHANGED web
SetPointsPerCheckinV1 ==
    /\ \E sender \in AdminCallers, n \in NewPoints :
           set_points_per_checkin_v1(sender, n)
    /\ UNCHANGED web
SetStreakBonusV1 ==
    /\ \E sender \in AdminCallers, n \in NewBonusV1 :
           set_streak_bonus_v1(sender, n)
    /\ UNCHANGED web
MineBlocksV1 ==
    /\ \E d \in Advances : Mine(d, StartBlock + MaxBlocksV1 * BLOCKS_PER_DAY)
    /\ UNCHANGED web

\* the first contract: check-in, bulk-check-in and its two admin setters
NextV1 ==
    \/ MineBlocksV1
    \/ CheckInV1
    \/ BulkCheckIn
    \/ SetPointsPerCheckinV1
    \/ SetStreakBonusV1

SpecV1 == Init /\ [][NextV1]_vars

\* the wallets of the maximum-size batch, in the order they are listed
Wallets ==
    <<"wallet_1", "wallet_2", "wallet_3", "wallet_4", "wallet_5",
      "wallet_6", "wallet_7", "wallet_8", "wallet_9", "wallet_10">>

\* the lengths of the lists passed to bulk-check-in: empty, one, one below
\* the maximum, the maximum, one above it
BulkLens == {0, 1, LIST_MAX - 1, LIST_MAX, LIST_MAX + 1}

BulkLists ==
    {SubSeq(Wallets \o <<"wallet_1">>, 1, n) : n \in BulkLens}

InitBulk ==
    /\ block_height = StartBlock
    /\ points_per_checkin = 100
    /\ streak_bonus = 10
    /\ total_checkins = 0
    /\ unique_users = 0
    /\ contract_deployer = CONTRACT_DEPLOYER
    /\ fee_amount = CHECKIN_FEE
    /\ last_checkin = EmptyMap
    /\ user_points = EmptyMap
    /\ user_streak = EmptyMap
    /\ user_total_checkins = EmptyMap
    /\ user_fee_paid = EmptyMap
    /\ tx = [fn |-> "deploy", sender |-> CONTRACT_OWNER, users |-> <<>>,
             height |-> StartBlock, ok |-> TRUE, code |-> 0,
             receipts |-> <<>>, steps |-> <<>>]
    /\ history = [p \in {Wallets[i] : i \in DOMAIN Wallets} |-> <<>>]
    /\ WebInit

CallBulkCheckIn ==
    /\ total_checkins < MaxCheckinsBulk
    /\ \E sender \in Payers, users \in BulkLists, funded \in BOOLEAN :
           call_bulk_check_in(sender, users, funded)
    /\ UNCHANGED web
MineDayBulk ==
    /\ Mine(BLOCKS_PER_DAY, StartBlock + MaxDaysBulk * BLOCKS_PER_DAY)
    /\ UNCHANGED web

\* bulk-check-in of the first contract called with lists of every length
NextBulk ==
    \/ MineDayBulk
    \/ CallBulkCheckIn

SpecBulk == InitBulk /\ [][NextBulk]_vars

CheckInRead ==
    /\ total_checkins < MaxCheckinsRead
    /\ \E user \in Callers, funded \in BOOLEAN : check_in(user, funded)
    /\ UNCHANGED web
GetUserStats ==
    /\ \E sender \in DailyCallers, user \in Principals :
           call_get_user_stats(sender, user)
    /\ UNCHANGED web
GetGlobalStats ==
    /\ \E sender \in DailyCallers : call_get_global_stats(sender)
    /\ UNCHANGED web
MineBlocksRead ==
    /\ \E d \in Advances : Mine(d, StartBlock + MaxBlocksRead * BLOCKS_PER_DAY)
    /\ UNCHANGED web

\* the V2 check-in and fee setter with the read-only statistics functions
NextRead ==
    \/ MineBlocksRead
    \/ CheckInRead
    \/ SetFeeAmount
    \/ GetUserStats
    \/ GetGlobalStats

SpecRead == Init /\ [][NextRead]_vars

\* the wallets of the scenario with single and bulk check-ins: two that check
\* in by themselves, a third that is only listed, a fourth that pays
MixedCallers == {"wallet_1", "wallet_2"}
MixedPayers  == {"wallet_4"}
MixedLists   == {<<"wallet_1", "wallet_2", "wallet_3">>, <<"wallet_3">>}

CheckInMixed ==
    /\ total_checkins < MaxCheckinsMixed
    /\ \E user \in MixedCallers, funded \in BOOLEAN : check_in_v1(user, funded)
    /\ UNCHANGED web
BulkCheckInMixed ==
    /\ total_checkins < MaxCheckinsMixed
    /\ \E sender \in MixedPayers, users \in MixedLists, funded \in BOOLEAN :
           bulk_check_in(sender, users, funded)
    /\ UNCHANGED web
GetGlobalStatsMixed ==
    /\ \E sender \in MixedCallers : call_get_global_stats_v1(sender)
    /\ UNCHANGED web
MineDayMixed ==
    /\ Mine(BLOCKS_PER_DAY, StartBlock + MaxDaysMixed * BLOCKS_PER_DAY)
    /\ UNCHANGED web

\* the first contract used by four wallets: single check-ins, a day later a
\* batch paid by a wallet that never checks in, then the global statistics
NextMixed ==
    \/ MineDayMixed
    \/ CheckInMixed
    \/ BulkCheckInMixed
    \/ GetGlobalStatsMixed

SpecMixed == InitBulk /\ [][NextMixed]_vars

\* the last block SpecLive goes to
LastLive == StartBlock + MaxDaysLive * BLOCKS_PER_DAY

\* the clock of SpecLive advances by half a day or a day
AdvancesLive == {BLOCKS_PER_DAY \div 2, BLOCKS_PER_DAY}

\* check-in of the V2 contract; a call is taken while the caller is eligible
\* or a window after the call still ends inside the modelled blocks
CheckInLiveBy(user, funded) ==
    /\ can_checkin(user) \/ block_height + BLOCKS_PER_DAY <= LastLive
    /\ check_in(user, funded)
    /\ UNCHANGED web
CheckInLive ==
    \E user \in Callers, funded \in BOOLEAN : CheckInLiveBy(user, funded)
MineLive ==
    /\ \E d \in AdvancesLive : Mine(d, LastLive)
    /\ UNCHANGED web

NextLive ==
    \/ MineLive
    \/ CheckInLive

\* the V2 check-in with blocks that keep being mined and callers that keep
\* retrying with a balance that covers the fee
SpecLive ==
    /\ Init
    /\ [][NextLive]_vars
    /\ WF_vars(MineLive)
    /\ \A user \in Callers : WF_vars(CheckInLiveBy(user, TRUE))

\* CircuitBreaker under calls that overlap and a clock
NextBreaker ==
    \/ execute_call
    \/ execute_resolved
    \/ execute_rejected
    \/ BreakerTick

SpecBreaker == Init /\ [][NextBreaker]_vars

BulkheadExecute == \E c \in BulkheadCallIds : bulkhead_execute(c)
BulkheadResume  == \E c \in BulkheadCallIds : bulkhead_resume(c)
BulkheadFinally == \E c \in BulkheadCallIds : bulkhead_finally(c)

\* Bulkhead under calls that arrive and finish in any order
NextBulkhead ==
    \/ BulkheadExecute
    \/ BulkheadResume
    \/ BulkheadFinally

SpecBulkhead == Init /\ [][NextBulkhead]_vars

Enqueue == \E request \in RequestIds : enqueue(request)
Settled(request) == \E resolved \in BOOLEAN : settled(request, resolved)
SettledAny == \E request \in RequestIds : Settled(request)

\* RequestQueue: every request that is executed settles (executeRequest
\* rejects it at the latest when its timeout fires)
NextQueue ==
    \/ Enqueue
    \/ SettledAny
    \/ clear
    \/ pause
    \/ resume

SpecQueue ==
    /\ Init
    /\ [][NextQueue]_vars
    /\ \A request \in RequestIds : WF_vars(Settled(request))

LruGet == \E key \in LruKeys : lru_get(key)
LruSet == \E key \in LruKeys, value \in LruValues : lru_set(key, value)
LruDelete == \E key \in LruKeys : lru_delete(key)

\* LRUCache under any sequence of get, set, delete and clear
NextCache ==
    \/ LruGet
    \/ LruSet
    \/ LruDelete
    \/ lru_clear

SpecCache == Init /\ [][NextCache]_vars

---------------------------------------------------------------------------
(* Properties *)

\* a step that runs a transaction (mining leaves the block height changed)
CallStep == block_height' = block_height

Rejected(t) == t.fn = "check-in" /\ ~t.ok /\ t.code = ERR_ALREADY_CHECKED_IN

\* P has a recorded last check-in L # 0 and now - L < windowLength
InWindow(P) ==
    LET L == MapGet(last_checkin, P)
    IN  L # 0 /\ block_height - L < BLOCKS_PER_DAY

Transfers(t) == {i \in DOMAIN t.steps : t.steps[i].op = "stx-transfer"}
FailedTransfer(t) == \E i \in Transfers(t) : t.steps[i].code # 0

\* every gap between consecutive credited check-ins is exactly one window
Regular(h) == \A i \in 1..(Len(h) - 1) : h[i + 1] - h[i] = BLOCKS_PER_DAY

C2_OncePerWindow ==
    \A p \in Principals :
        \A i, j \in DOMAIN history[p] :
            i < j => history[p][j] - history[p][i] >= BLOCKS_PER_DAY

C2_Witness ==
    /\ tx.fn = "bulk-check-in"
    /\ tx.ok
    /\ tx.height = block_height
    /\ \E p \in Principals :
          /\ Len(history[p]) >= 2
          /\ history[p][Len(history[p])] = block_height
          /\ \E i \in DOMAIN tx.users : tx.users[i] = p /\ tx.receipts[i].ok

\* C3: when the fee transfer of check-in fails, the call returns the error
\* of the failed transfer and every user record, the global statistics and
\* the configuration are as before the call.
C3_FeeTransferFailed ==
    [][(CallStep /\ tx'.fn = "check-in" /\ FailedTransfer(tx')) =>
         /\ ~tx'.ok
         /\ \E i \in Transfers(tx') : tx'.code = tx'.steps[i].code
         /\ tx'.code \in StxErrors
         /\ UNCHANGED <<ledger, history>>]_vars

C3_Witness ==
    /\ tx.fn = "check-in"
    /\ FailedTransfer(tx)
    /\ ~tx.ok
    /\ tx.height = block_height
    /\ MapGet(user_total_checkins, tx.sender) >= 1

\* C4: check-in runs the eligibility check, then the fee transfer, then the
\* writes: no transfer is attempted for an ineligible principal, a credited
\* check-in ran exactly one transfer, of fee-amount from the principal to
\* the fee recipient, which succeeded, and nothing is written before it.
C4_Order ==
    [][(CallStep /\ tx'.fn = "check-in") =>
         LET P  == tx'.sender
             st == tx'.steps
         IN  /\ Transfers(tx') # {} => ~InWindow(P)
             /\ \A i \in Transfers(tx') :
                    i = 2 /\ st[1] = AssertStep(P, TRUE)
             /\ \A i \in DOMAIN st :
                    st[i].op = "write" =>
                        /\ i = 3
                        /\ st[2] = TransferStep(fee_amount, P,
                                                contract_deployer, 0)
             /\ (tx'.ok \/ <<ledger, history>>' # <<ledger, history>>) =>
                    st = <<AssertStep(P, TRUE),
                           TransferStep(fee_amount, P, contract_deployer, 0),
                           WriteStep(P)>>]_vars

C4_Witness ==
    /\ tx.fn = "check-in"
    /\ tx.ok
    /\ tx.height = block_height
    /\ fee_amount # CHECKIN_FEE
    /\ contract_deployer # CONTRACT_DEPLOYER
    /\ tx.steps[2] = TransferStep(fee_amount, tx.sender, contract_deployer, 0)

\* C5: a credited check-in of P at block now with previous record (L, s)
\* stores and returns the streak s + 1 if L # 0 and now - L < 2 * 144, and 1
\* otherwise.
C5_NewStreak ==
    [][(CallStep /\ tx'.fn = "check-in" /\ tx'.ok) =>
         LET P == tx'.sender
             L == MapGet(last_checkin, P)
             s == MapGet(user_streak, P)
             expected == IF L # 0 /\ block_height - L < 2 * BLOCKS_PER_DAY
                         THEN s + 1 ELSE 1
         IN  /\ MapGet(user_streak', P) = expected
             /\ tx'.receipts[1].streak = expected]_vars

C5_Witness ==
    /\ tx.fn = "check-in"
    /\ tx.ok
    /\ tx.height = block_height
    /\ tx.receipts[1].streak = 3
    /\ MapGet(user_streak, tx.sender) = 3

\* C6: for a principal whose credited check-ins are exactly one window apart,
\* the streak after the k-th check-in is k.
C6_StreakCounts ==
    \A p \in Principals :
        (history[p] # <<>> /\ Regular(history[p])) =>
            MapGet(user_streak, p) = Len(history[p])

C6_Witness ==
    \E p \in Principals :
        /\ Len(history[p]) >= 4
        /\ Regular(history[p])
        /\ MapGet(user_streak, p) = Len(history[p])

\* C7: with previous streak s, a credited check-in 2 * 144 blocks or more
\* after the previous one yields streak 1, and one 2 * 144 - 1 blocks after it
\* yields s + 1.
C7_ResetBoundary ==
    [][(CallStep /\ tx'.fn = "check-in" /\ tx'.ok
          /\ MapGet(last_checkin, tx'.sender) # 0) =>
         LET P   == tx'.sender
             gap == block_height - MapGet(last_checkin, P)
             s   == MapGet(user_streak, P)
         IN  /\ gap >= 2 * BLOCKS_PER_DAY => MapGet(user_streak', P) = 1
             /\ gap = 2 * BLOCKS_PER_DAY - 1 =>
                    MapGet(user_streak', P) = s + 1]_vars

C7_Witness ==
    \E p, q \in Principals :
        /\ Len(history[p]) = 2
        /\ history[p][2] - history[p][1] = 2 * BLOCKS_PER_DAY
        /\ MapGet(user_streak, p) = 1
        /\ Len(history[q]) = 2
        /\ history[q][2] - history[q][1] = 2 * BLOCKS_PER_DAY - 1
        /\ MapGet(user_streak, q) = 2

C9_Scenario ==
    (tx.fn = "check-in" /\ tx.ok /\ tx.height = block_height
       /\ Regular(history[tx.sender])) =>
        LET r == tx.receipts[1]
            k == Len(history[tx.sender])
        IN  /\ k = 1 => /\ r.earned = 100
                        /\ r.total_points = 100
                        /\ r.streak = 1
                        /\ r.total_checkins = 1
            /\ k = 2 => /\ r.earned = 110
                        /\ r.total_points = 210
                        /\ r.streak = 2
            /\ k = 3 => /\ r.earned = 120
                        /\ r.total_points = 330
                        /\ r.streak = 3

\* C10: the streak bonus of a check-in is at most 70 points: with the default
\* configuration a check-in at a streak of 7 or more earns 170 points and no
\* check-in earns more.
C10_BonusCapped ==
    (tx.fn = "check-in" /\ tx.ok) =>
        LET r == tx.receipts[1]
        IN  /\ r.earned - points_per_checkin <= 70
            /\ r.earned <= 170
            /\ r.streak >= 7 => r.earned = 170

\* the sum of total-checkins over the principals in S
RECURSIVE SumCheckins(_)
SumCheckins(S) ==
    IF S = {} THEN 0
    ELSE LET p == CHOOSE x \in S : TRUE
         IN  user_total_checkins[p] + SumCheckins(S \ {p})

Processed(t) ==
    /\ t.fn = "bulk-check-in"
    /\ t.users # <<>>
    /\ Transfers(t) # {}
    /\ ~FailedTransfer(t)

\* C12: when a principal of the list is ineligible at the block of a
\* bulk-check-in call, the call returns (err u100) and no record of a listed
\* principal and no global counter has changed.
C12_BatchAtomic ==
    [][(CallStep /\ Processed(tx')
          /\ \E i \in DOMAIN tx'.users :
                 ~can_checkin_v1(last_checkin, tx'.users[i])) =>
         /\ ~tx'.ok
         /\ tx'.code = ERR_ALREADY_CHECKED_IN
         /\ UNCHANGED <<ledger, history>>]_vars

\* C13: a bulk-check-in whose list names the same eligible principal twice
\* returns (err u100) and leaves that principal and the other listed
\* principals unchanged.
C13_Duplicates ==
    [][(CallStep /\ Processed(tx')
          /\ (\A i \in DOMAIN tx'.users :
                 can_checkin_v1(last_checkin, tx'.users[i]))
          /\ \E i, j \in DOMAIN tx'.users :
                 i < j /\ tx'.users[i] = tx'.users[j]) =>
         /\ ~tx'.ok
         /\ tx'.code = ERR_ALREADY_CHECKED_IN
         /\ UNCHANGED <<ledger, history>>]_vars

Ops(t, op) == {i \in DOMAIN t.steps : t.steps[i].op = op}

\* C14: when the fee transfer of bulk-check-in fails, the call returns the
\* error of the failed transfer, check-in-internal is applied to no listed
\* principal, and every user record and global counter is unchanged.
C14_BulkFeeTransferFailed ==
    [][(CallStep /\ tx'.fn = "bulk-check-in" /\ FailedTransfer(tx')) =>
         /\ ~tx'.ok
         /\ tx'.code \in StxErrors
         /\ \A i \in Transfers(tx') : tx'.code = tx'.steps[i].code
         /\ tx'.receipts = <<>>
         /\ Ops(tx', "can-checkin") = {}
         /\ Ops(tx', "write") = {}
         /\ UNCHANGED <<ledger, history>>]_vars

C14_Witness ==
    /\ tx.fn = "bulk-check-in"
    /\ FailedTransfer(tx)
    /\ ~tx.ok
    /\ tx.height = block_height
    /\ Len(tx.users) = 2
    /\ \A i \in DOMAIN tx.users : can_checkin_v1(last_checkin, tx.users[i])
    /\ total_checkins >= 1

\* C15: a bulk-check-in over n >= 1 principals runs exactly one fee transfer,
\* of n times the check-in fee, from the caller to the fee recipient, as its
\* first step: no record is written before it, none is written unless it
\* succeeded, and no transfer is made per principal.
C15_OneTransfer ==
    [][(CallStep /\ tx'.fn = "bulk-check-in" /\ tx'.users # <<>>) =>
         LET st == tx'.steps
             n  == Len(tx'.users)
         IN  /\ Transfers(tx') = {1}
             /\ st[1].amount = n * CHECKIN_FEE
             /\ st[1].sender = tx'.sender
             /\ st[1].recipient = CONTRACT_OWNER
             /\ (tx'.ok \/ Ops(tx', "write") # {}
                   \/ <<ledger, history>>' # <<ledger, history>>) =>
                    st[1].code = 0]_vars

C15_Witness ==
    /\ tx.fn = "bulk-check-in"
    /\ tx.ok
    /\ tx.height = block_height
    /\ Len(tx.users) = 2
    /\ tx.steps[1] = TransferStep(2 * CHECKIN_FEE, tx.sender, CONTRACT_OWNER, 0)
    /\ Cardinality(Ops(tx, "write")) = 2

Distinct(users) ==
    \A i, j \in DOMAIN users : users[i] = users[j] => i = j

Recorded(P, r) ==
    /\ MapGet(last_checkin', P) = block_height
    /\ MapGet(user_points', P) = r.total_points
    /\ MapGet(user_streak', P) = r.streak
    /\ MapGet(user_total_checkins', P) = r.total_checkins

NoRecord ==
    [points |-> 0, streak |-> 0, total_checkins |-> 0, last_checkin |-> 0,
     fee_paid |-> 0, can_checkin |-> TRUE]

\* C18: for a principal that never had a credited check-in, get-user-stats
\* returns 0 for points, streak, total-checkins, last-checkin and fee-paid
\* and can-checkin true, at any block and whatever other principals did.
C18_NoRecord ==
    /\ \A p \in Principals :
          history[p] = <<>> => get_user_stats(p) = NoRecord
    /\ (tx.fn = "get-user-stats" /\ history[tx.users[1]] = <<>>) =>
          tx.receipts = <<NoRecord>>

C18_Witness ==
    /\ tx.fn = "get-user-stats"
    /\ history[tx.users[1]] = <<>>
    /\ tx.receipts = <<NoRecord>>
    /\ tx.height = block_height
    /\ block_height > StartBlock + BLOCKS_PER_DAY
    /\ total_checkins >= 3
    /\ unique_users >= 2

\* C19: can-checkin of get-user-stats for P is true exactly when a check-in
\* by P in that state is not rejected with AlreadyCheckedIn; it is false
\* right after a credited check-in and, for a principal with a last
\* check-in L, true exactly from block L + 144 on.
C19_CanCheckIn ==
    /\ [](\A p \in Principals :
            LET L == MapGet(last_checkin, p)
            IN  /\ L = 0 => get_user_stats(p).can_checkin
                /\ L # 0 => (get_user_stats(p).can_checkin
                               <=> block_height >= L + BLOCKS_PER_DAY))
    /\ [][\A P \in Principals :
            (CallStep /\ tx'.fn = "check-in" /\ tx'.sender = P) =>
                /\ get_user_stats(P).can_checkin <=> ~Rejected(tx')
                /\ tx'.ok => ~get_user_stats(P).can_checkin']_vars

C19_Witness ==
    /\ tx.fn = "get-user-stats"
    /\ tx.height = block_height
    /\ tx.receipts[1].can_checkin
    /\ tx.receipts[1].last_checkin # 0
    /\ block_height = tx.receipts[1].last_checkin + BLOCKS_PER_DAY

\* C20: after a credited check-in of P, get-user-stats of P reports the
\* total-points, streak and total-checkins of the returned tuple and the
\* block of the call as last-checkin; fee-paid of the tuple is the
\* fee-amount at the call; get-user-stats and get-global-stats return the
\* current values and change no state.
C20_ReceiptMatchesRecord ==
    [][/\ \A P \in Principals :
            (CallStep /\ tx'.fn = "check-in" /\ tx'.ok /\ tx'.sender = P) =>
            LET r == tx'.receipts[1]
                s == get_user_stats(P)'
            IN  /\ s.points = r.total_points
                /\ s.streak = r.streak
                /\ s.total_checkins = r.total_checkins
                /\ s.last_checkin = block_height
                /\ r.fee_paid = fee_amount
       /\ (CallStep /\ tx'.fn = "get-user-stats") =>
            /\ tx'.receipts = <<get_user_stats(tx'.users[1])>>
            /\ UNCHANGED <<ledger, history>>
       /\ (CallStep /\ tx'.fn = "get-global-stats") =>
            /\ tx'.receipts = <<get_global_stats>>
            /\ UNCHANGED <<ledger, history>>]_vars

C20_Witness ==
    /\ tx.fn = "check-in"
    /\ tx.ok
    /\ tx.height = block_height
    /\ tx.receipts[1].fee_paid = fee_amount
    /\ fee_amount # CHECKIN_FEE
    /\ get_user_stats(tx.sender).fee_paid = fee_amount + CHECKIN_FEE
    /\ get_user_stats(tx.sender).total_checkins = 2
    /\ get_user_stats(tx.sender).points = tx.receipts[1].total_points

Setters == {"set-points-per-checkin", "set-streak-bonus", "set-fee-amount"}

\* C21: set-points-per-checkin, set-streak-bonus and set-fee-amount called by
\* a principal other than the contract owner return (err u101) and change
\* nothing; points-per-checkin, streak-bonus and fee-amount change only in a
\* successful call of their setter by the owner, to the value it passed.
C21_OnlyOwnerSets ==
    [][/\ (CallStep /\ tx'.fn \in Setters /\ tx'.sender # CONTRACT_OWNER) =>
            /\ ~tx'.ok
            /\ tx'.code = ERR_NOT_AUTHORIZED
            /\ UNCHANGED <<ledger, history>>
       /\ points_per_checkin' # points_per_checkin =>
            /\ tx'.fn = "set-points-per-checkin"
            /\ tx'.sender = CONTRACT_OWNER
            /\ tx'.ok
            /\ points_per_checkin' = tx'.code
       /\ streak_bonus' # streak_bonus =>
            /\ tx'.fn = "set-streak-bonus"
            /\ tx'.sender = CONTRACT_OWNER
            /\ tx'.ok
            /\ streak_bonus' = tx'.code
       /\ fee_amount' # fee_amount =>
            /\ tx'.fn = "set-fee-amount"
            /\ tx'.sender = CONTRACT_OWNER
            /\ tx'.ok
            /\ fee_amount' = tx'.code]_vars

C21_Witness ==
    /\ tx.fn = "set-fee-amount"
    /\ tx.sender # CONTRACT_OWNER
    /\ ~tx.ok
    /\ tx.code = ERR_NOT_AUTHORIZED
    /\ fee_amount # CHECKIN_FEE
    /\ points_per_checkin # 100
    /\ total_checkins >= 1

\* C22: called by the owner, set-points-per-checkin with 0 and
\* set-fee-amount with 0 return (err u102) and change nothing, and
\* set-streak-bonus with 0 returns ok and sets the bonus to 0; called by
\* another principal with 0, each returns (err u101).
C22_ZeroArguments ==
    [][/\ set_points_per_checkin(CONTRACT_OWNER, 0) =>
            /\ ~tx'.ok
            /\ tx'.code = ERR_INVALID_AMOUNT
            /\ UNCHANGED <<ledger, history>>
       /\ set_fee_amount(CONTRACT_OWNER, 0) =>
            /\ ~tx'.ok
            /\ tx'.code = ERR_INVALID_AMOUNT
            /\ UNCHANGED <<ledger, history>>
       /\ set_streak_bonus(CONTRACT_OWNER, 0) =>
            /\ tx'.ok
            /\ streak_bonus' = 0
       /\ \A sender \in AdminCallers \ {CONTRACT_OWNER} :
            (\/ set_points_per_checkin(sender, 0)
             \/ set_fee_amount(sender, 0)
             \/ set_streak_bonus(sender, 0)) =>
                /\ ~tx'.ok
                /\ tx'.code = ERR_NOT_AUTHORIZED
                /\ UNCHANGED <<ledger, history>>]_vars

C22_Witness ==
    /\ tx.fn = "set-fee-amount"
    /\ tx.sender = CONTRACT_OWNER
    /\ ~tx.ok
    /\ tx.code = ERR_INVALID_AMOUNT
    /\ streak_bonus = 0
    /\ fee_amount = 5000
    /\ points_per_checkin = 200

\* C24: after any sequence of check-ins and admin calls, by the owner or by
\* others and with any argument, points-per-checkin > 0 and fee-amount > 0;
\* streak-bonus may be 0.
C24_ConfigPositive ==
    /\ points_per_checkin > 0
    /\ fee_amount > 0
    /\ streak_bonus >= 0

C24_Witness ==
    /\ streak_bonus = 0
    /\ tx.fn = "set-points-per-checkin"
    /\ tx.sender = CONTRACT_OWNER
    /\ tx.code = ERR_INVALID_AMOUNT
    /\ ~tx.ok
    /\ points_per_checkin > 0
    /\ fee_amount = 5000
    /\ total_checkins >= 1

C25_Monotonic ==
    [][/\ total_checkins' >= total_checkins
       /\ unique_users' >= unique_users
       /\ DOMAIN last_checkin \subseteq DOMAIN last_checkin'
       /\ DOMAIN user_points \subseteq DOMAIN user_points'
       /\ DOMAIN user_streak \subseteq DOMAIN user_streak'
       /\ DOMAIN user_total_checkins \subseteq DOMAIN user_total_checkins'
       /\ DOMAIN user_fee_paid \subseteq DOMAIN user_fee_paid'
       /\ \A p \in Principals :
            /\ MapGet(user_points', p) >= MapGet(user_points, p)
            /\ MapGet(user_total_checkins', p) >= MapGet(user_total_checkins, p)
            /\ MapGet(user_fee_paid', p) >= MapGet(user_fee_paid, p)
            /\ MapGet(last_checkin', p) >= MapGet(last_checkin, p)
            /\ MapGet(user_streak', p) < MapGet(user_streak, p) =>
                  MapGet(user_streak', p) = 1]_vars

C25_Witness ==
    /\ tx.fn = "check-in"
    /\ tx.ok
    /\ tx.height = block_height
    /\ Len(history[tx.sender]) = 3
    /\ history[tx.sender][2] - history[tx.sender][1] < 2 * BLOCKS_PER_DAY
    /\ history[tx.sender][3] - history[tx.sender][2] >= 2 * BLOCKS_PER_DAY
    /\ MapGet(user_streak, tx.sender) = 1
    /\ MapGet(user_total_checkins, tx.sender) = 3

\* C26: with block heights starting at 1, for every principal last-checkin
\* is 0 exactly when total-checkins is 0, exactly when the streak is 0 and
\* exactly when the points are 0, which is the case exactly before its first
\* credited check-in; after it streak >= 1 and last-checkin >= 1, so
\* is-new-user holds in exactly one credited check-in per principal.
C26_WellFormed ==
    /\ \A p \in Principals :
          LET never == history[p] = <<>>
          IN  /\ MapGet(last_checkin, p) = 0 <=> never
              /\ MapGet(user_total_checkins, p) = 0 <=> never
              /\ MapGet(user_streak, p) = 0 <=> never
              /\ MapGet(user_points, p) = 0 <=> never
              /\ ~never => /\ MapGet(user_streak, p) >= 1
                            /\ MapGet(last_checkin, p) >= 1
                            /\ MapGet(last_checkin, p) =
                                  history[p][Len(history[p])]
    /\ unique_users = Cardinality({p \in Principals : history[p] # <<>>})

C26_Witness ==
    /\ streak_bonus = 0
    /\ \E p, q \in Principals :
          /\ Len(history[p]) = 2
          /\ MapGet(user_streak, p) >= 1
          /\ MapGet(user_points, p) > 0
          /\ history[q] = <<>>
          /\ MapGet(last_checkin, q) = 0
    /\ unique_users = 1

\* map `after` differs from map `before` at most in the entry of P
OnlyAt(before, after, P) ==
    /\ DOMAIN after \subseteq DOMAIN before \cup {P}
    /\ \A q \in DOMAIN before \ {P} : q \in DOMAIN after /\ after[q] = before[q]

\* C27: a credited check-in of P changes only the map entries of P,
\* total-checkins (by one) and unique-users (by one if P was new), and makes
\* one fee transfer; the entries of every other principal and
\* points-per-checkin, streak-bonus, fee-amount and the fee recipient are
\* unchanged.
C27_Frame ==
    [][\A P \in Principals :
         (CallStep /\ tx'.fn = "check-in" /\ tx'.ok /\ tx'.sender = P) =>
            /\ UNCHANGED config
            /\ OnlyAt(last_checkin, last_checkin', P)
            /\ OnlyAt(user_points, user_points', P)
            /\ OnlyAt(user_streak, user_streak', P)
            /\ OnlyAt(user_total_checkins, user_total_checkins', P)
            /\ OnlyAt(user_fee_paid, user_fee_paid', P)
            /\ \A q \in Principals \ {P} : history'[q] = history[q]
            /\ total_checkins' = total_checkins + 1
            /\ unique_users' = unique_users
                  + (IF MapGet(last_checkin, P) = 0 THEN 1 ELSE 0)
            /\ Cardinality(Transfers(tx')) = 1
            /\ MapGet(last_checkin', P) = block_height]_vars

C27_Witness ==
    /\ tx.fn = "check-in"
    /\ tx.ok
    /\ tx.height = block_height
    /\ fee_amount # CHECKIN_FEE
    /\ \E q \in Principals \ {tx.sender} :
          /\ MapGet(last_checkin, q) # 0
          /\ MapGet(last_checkin, q) < block_height
          /\ MapGet(user_fee_paid, q) = CHECKIN_FEE
    /\ MapGet(user_total_checkins, tx.sender) = 2
    /\ unique_users = 2

\* C28: the state that the statistics functions read after a check-in or
\* bulk-check-in call is either the state before the call, with no fee
\* transferred, or a state in which the fee was transferred and every
\* principal the call names is updated: never one with the fee transferred
\* and a named principal not updated, or with only some members of a batch
\* updated.
C28_ReadAtomicity ==
    [][(CallStep /\ tx'.fn \in {"check-in", "bulk-check-in"}) =>
         LET paid == Transfers(tx') # {} /\ ~FailedTransfer(tx')
         IN  /\ ~paid => UNCHANGED <<ledger, history>>
             /\ paid =>
                   \A i \in DOMAIN tx'.users :
                      LET P == tx'.users[i]
                      IN  /\ MapGet(last_checkin', P) = block_height
                          /\ MapGet(user_total_checkins', P) >
                                MapGet(user_total_checkins, P)
                          /\ MapGet(user_points', P) >
                                MapGet(user_points, P)]_vars

\* the number of credited receipts of P in transaction t
Credited(t, P) ==
    Cardinality({i \in DOMAIN t.receipts :
                    t.users[i] = P /\ t.receipts[i].ok})

RECURSIVE SumCredited(_)
SumCredited(S) ==
    IF S = {} THEN 0
    ELSE LET p == CHOOSE x \in S : TRUE
         IN  Len(history[p]) + SumCredited(S \ {p})

MixedScenario ==
    /\ tx.fn = "bulk-check-in"
    /\ tx.ok
    /\ tx.sender = "wallet_4"
    /\ tx.users = <<"wallet_1", "wallet_2", "wallet_3">>
    /\ \A i \in DOMAIN tx.receipts : tx.receipts[i].ok
    /\ tx.height = block_height
    /\ history["wallet_1"] = <<block_height - BLOCKS_PER_DAY, block_height>>
    /\ history["wallet_2"] = <<block_height - BLOCKS_PER_DAY, block_height>>
    /\ history["wallet_3"] = <<block_height>>
    /\ history["wallet_4"] = <<>>

\* C31: after single check-ins by wallet_1 and wallet_2 and, 144 blocks
\* later, a bulk check-in of [wallet_1, wallet_2, wallet_3] paid by wallet_4,
\* get-global-stats reports total-checkins 5 and unique-users 4 (the payer
\* counted as a unique user).
C31_PayerCounted ==
    MixedScenario =>
        /\ get_global_stats_v1.total_checkins = 5
        /\ get_global_stats_v1.unique_users = 4

\* the sum of the values of map m
RECURSIVE SumMap(_)
SumMap(m) ==
    IF DOMAIN m = {} THEN 0
    ELSE LET p == CHOOSE x \in DOMAIN m : TRUE
         IN  m[p] + SumMap([x \in DOMAIN m \ {p} |-> m[x]])

\* the amount transaction t moved to the fee recipient
TransferredBy(t) ==
    IF \E i \in Transfers(t) : t.steps[i].code = 0
    THEN t.steps[CHOOSE i \in Transfers(t) : t.steps[i].code = 0].amount
    ELSE 0

\* the number of times P is listed in users
Listed(users, P) == Cardinality({i \in DOMAIN users : users[i] = P})

CreditedNow(P) == tx.fn = "check-in" /\ tx.ok /\ tx.sender = P

\* C33: a principal with last check-in L is eligible at every block from
\* L + 144 on and stays eligible until its next credited check-in; with
\* blocks that keep being mined and a fee transfer that succeeds, a check-in
\* that was rejected with AlreadyCheckedIn is followed by a credited one.
C33_ReEligible ==
    /\ [](\A P \in Callers :
            LET L == MapGet(last_checkin, P)
            IN  (L # 0 /\ block_height >= L + BLOCKS_PER_DAY) => can_checkin(P))
    /\ [][\A P \in Callers :
            (can_checkin(P) /\ ~(tx'.fn = "check-in" /\ tx'.ok
                                   /\ tx'.sender = P /\ tx' # tx)) =>
                /\ can_checkin(P)'
                /\ MapGet(last_checkin', P) = MapGet(last_checkin, P)]_vars
    /\ \A P \in Callers :
          (Rejected(tx) /\ tx.sender = P) ~> CreditedNow(P)
    /\ \A P \in Callers :
          (CreditedNow(P) /\ block_height + BLOCKS_PER_DAY <= LastLive)
             ~> can_checkin(P)

C33_Witness ==
    \E P \in Callers :
        /\ CreditedNow(P)
        /\ tx.height = block_height
        /\ Len(history[P]) = 2
        /\ history[P][2] = history[P][1] + BLOCKS_PER_DAY
        /\ \E Q \in Callers \ {P} : InWindow(Q)

AdminFns == Setters \cup {"update-contract-deployer"}

\* C34: update-contract-deployer called by a principal other than the
\* contract owner returns (err u101) and leaves the fee recipient unchanged;
\* the recipient changes only in a successful call by the owner, to the
\* principal passed; every check-in transfers its fee to the recipient
\* stored when it runs; the admin functions succeed for the owner only,
\* whoever the recipient is.
C34_RecipientByOwner ==
    [][/\ (CallStep /\ tx'.fn = "update-contract-deployer"
             /\ tx'.sender # CONTRACT_OWNER) =>
            /\ ~tx'.ok
            /\ tx'.code = ERR_NOT_AUTHORIZED
            /\ UNCHANGED <<ledger, history>>
       /\ contract_deployer' # contract_deployer =>
            /\ tx'.fn = "update-contract-deployer"
            /\ tx'.sender = CONTRACT_OWNER
            /\ tx'.ok
       /\ \A p \in NewDeployers :
            update_contract_deployer(CONTRACT_OWNER, p) =>
                /\ tx'.ok
                /\ contract_deployer' = p
                /\ UNCHANGED <<points_per_checkin, streak_bonus, fee_amount,
                               stats, maps, history>>
       /\ (CallStep /\ tx'.fn = "check-in") =>
            /\ \A i \in Transfers(tx') :
                   tx'.steps[i].recipient = contract_deployer
            /\ tx'.ok => Transfers(tx') # {}
       /\ (CallStep /\ tx'.fn \in AdminFns) =>
            /\ tx'.ok => tx'.sender = CONTRACT_OWNER
            /\ tx'.sender # CONTRACT_OWNER =>
                   /\ ~tx'.ok
                   /\ tx'.code = ERR_NOT_AUTHORIZED
                   /\ UNCHANGED <<ledger, history>>]_vars

C34_Witness ==
    /\ tx.fn = "check-in"
    /\ tx.ok
    /\ tx.height = block_height
    /\ contract_deployer \in NewDeployers
    /\ fee_amount = CHECKIN_FEE
    /\ tx.steps[2] = TransferStep(CHECKIN_FEE, tx.sender, contract_deployer, 0)
    /\ MapGet(user_total_checkins, tx.sender) = 2

\* a step in which a call of CircuitBreaker.execute ends with fn() rejected
BreakerFailure ==
    /\ breakerRun'.last = "rejected"
    /\ breakerRun'.inflight = breakerRun.inflight - 1

\* C35: once opened, the breaker becomes CLOSED only when successThreshold
\* calls have succeeded since it last became HALF_OPEN (successes of an
\* earlier HALF_OPEN period do not count), and a call that fails while the
\* breaker is HALF_OPEN opens it again.
C35_ClosesAfterThreshold ==
    [][/\ (breaker.state # "CLOSED" /\ breaker'.state = "CLOSED") =>
            breakerRun'.sinceHalfOpen >= successThreshold
       /\ (breaker.state = "HALF_OPEN" /\ BreakerFailure) =>
            breaker'.state = "OPEN"]_vars

\* the calls of Bulkhead.execute whose fn() is running
BulkheadRunning == {c \in BulkheadCallIds : bulkheadCalls[c] = "running"}

\* C36: whatever the order of calls, wake-ups and completions, the number of
\* functions the bulkhead runs at the same time (active) is at most
\* maxConcurrent.
C36_ActiveBounded ==
    /\ bulkhead.active <= maxConcurrent
    /\ Cardinality(BulkheadRunning) <= maxConcurrent

\* the requests being executed
RequestsActive == {r \in RequestIds : requests[r].at = "active"}

C38_PauseHolds ==
    [][/\ (requestQueue.paused /\ requestQueue'.paused) =>
            RequestsActive' \subseteq RequestsActive
       /\ (requestQueue.paused /\ ~requestQueue'.paused) =>
            ~(/\ requestQueue'.queue # <<>>
              /\ requestQueue'.active < config_maxConcurrent)]_vars

\* the keys the cache stores
LruStored == DOMAIN lruCache.data

\* C39: after any sequence of set, get, delete and clear without a ttl the
\* cache stores at most maxSize entries, and a set that inserts a new key
\* into a full cache evicts the least recently used of the stored keys and
\* nothing else.
C39_LruBounded ==
    /\ [](Cardinality(LruStored) <= maxSize)
    /\ [][(Cardinality(LruStored) >= maxSize
             /\ LruStored' \ LruStored # {}) =>
            LruStored \ LruStored' = {Head(lruUsed)}]_vars

====
